---- MODULE Spec2Model ----
(***************************************************************************)
(* Model of utils/atomic/format.py and utils/atomic/convertWeightsToHeader *)
(* .py: the conversion of the AME2020 mass table and the NUBASE2020        *)
(* nuclear table into a generated header of Species declarations.          *)
(*                                                                         *)
(* Text is a sequence of one-character strings.  A float is a record       *)
(* [kind, m, e]: kind "num" stands for m * 10^e (exact decimal arithmetic, *)
(* binary rounding is not modelled), "inf" for +-infinity (sign in m),     *)
(* "nan" for not-a-number.  Python's None and the emitter's C++ infinity   *)
(* literal are further kinds of the same record shape.                     *)
(***************************************************************************)
EXTENDS Integers, Sequences, FiniteSets, TLC

(***************************************************************************)
(* Bounds of the model.                                                    *)
(***************************************************************************)
MaxAmeRows == 2
MaxNubRows == 3

(***************************************************************************)
(* Characters and text.                                                    *)
(***************************************************************************)
Digits == {"0", "1", "2", "3", "4", "5", "6", "7", "8", "9"}

Letters ==
  {"a", "b", "c", "d", "e", "f", "g", "h", "i", "j", "k", "l", "m", "n", "o",
   "p", "q", "r", "s", "t", "u", "v", "w", "x", "y", "z",
   "A", "B", "C", "D", "E", "F", "G", "H", "I", "J", "K", "L", "M", "N", "O",
   "P", "Q", "R", "S", "T", "U", "V", "W", "X", "Y", "Z"}

DigitVal(c) ==
  CASE c = "0" -> 0 [] c = "1" -> 1 [] c = "2" -> 2 [] c = "3" -> 3
    [] c = "4" -> 4 [] c = "5" -> 5 [] c = "6" -> 6 [] c = "7" -> 7
    [] c = "8" -> 8 [] c = "9" -> 9

DigitChar(d) ==
  CASE d = 0 -> "0" [] d = 1 -> "1" [] d = 2 -> "2" [] d = 3 -> "3"
    [] d = 4 -> "4" [] d = 5 -> "5" [] d = 6 -> "6" [] d = 7 -> "7"
    [] d = 8 -> "8" [] d = 9 -> "9"

\* pandas' missing value in a text column (float nan in an object column).
NaNText == <<"<NaN>">>

\* Python's str(v) of a text cell: the text itself, "nan" for a missing value.
PyStr(v) == IF v = NaNText THEN <<"n", "a", "n">> ELSE v

RECURSIVE LStrip(_)
LStrip(s) == IF s # <<>> /\ Head(s) = " " THEN LStrip(Tail(s)) ELSE s

RECURSIVE RStrip(_)
RStrip(s) ==
  IF s # <<>> /\ s[Len(s)] = " " THEN RStrip(SubSeq(s, 1, Len(s) - 1)) ELSE s

\* str.strip(): leading and trailing blanks removed.
Strip(s) == LStrip(RStrip(s))

\* str.replace(c, t) for a one-character c and a text t.
RECURSIVE Replace(_, _, _)
Replace(s, c, t) ==
  IF s = <<>> THEN <<>>
  ELSE (IF Head(s) = c THEN t ELSE <<Head(s)>>) \o Replace(Tail(s), c, t)

AllDigits(s) == s # <<>> /\ \A i \in 1..Len(s) : s[i] \in Digits

RECURSIVE DigitsVal(_)
DigitsVal(s) ==
  IF s = <<>> THEN 0 ELSE 10 * DigitsVal(SubSeq(s, 1, Len(s) - 1)) + DigitVal(s[Len(s)])

\* str(n) of a natural number.
RECURSIVE IntToText(_)
IntToText(n) ==
  IF n < 10 THEN <<DigitChar(n)>> ELSE IntToText(n \div 10) \o <<DigitChar(n % 10)>>

HasSign(s) == s # <<>> /\ Head(s) \in {"+", "-"}
Unsigned(s) == IF HasSign(s) THEN Tail(s) ELSE s
SignOf(s) == IF s # <<>> /\ Head(s) = "-" THEN -1 ELSE 1

\* int(text) succeeds: blanks around, an optional sign, decimal digits.
IsIntText(s) == AllDigits(Unsigned(Strip(s)))
IntOf(s) == SignOf(Strip(s)) * DigitsVal(Unsigned(Strip(s)))

(***************************************************************************)
(* Floats.                                                                 *)
(***************************************************************************)
RECURSIVE Norm(_, _)
Norm(m, e) ==
  IF m = 0 THEN [kind |-> "num", m |-> 0, e |-> 0]
  ELSE IF m % 10 = 0 THEN Norm(m \div 10, e + 1)
  ELSE [kind |-> "num", m |-> m, e |-> e]

Num(m, e) == Norm(m, e)
PosInf == [kind |-> "inf", m |-> 1, e |-> 0]
NegInf == [kind |-> "inf", m |-> -1, e |-> 0]
NaN == [kind |-> "nan", m |-> 0, e |-> 0]
None == [kind |-> "None", m |-> 0, e |-> 0]
Zero == Num(0, 0)

Sgn(x) == IF x < 0 THEN -1 ELSE IF x > 0 THEN 1 ELSE 0

RECURSIVE Pow10(_)
Pow10(k) == IF k = 0 THEN 1 ELSE 10 * Pow10(k - 1)

\* IEEE product: nan absorbs, infinity times zero is nan.
FMul(x, y) ==
  IF x.kind = "nan" \/ y.kind = "nan" THEN NaN
  ELSE IF x.kind = "inf" \/ y.kind = "inf"
  THEN (IF Sgn(x.m) * Sgn(y.m) = 0 THEN NaN
        ELSE IF Sgn(x.m) * Sgn(y.m) > 0 THEN PosInf ELSE NegInf)
  ELSE Norm(x.m * y.m, x.e + y.e)

\* IEEE sum: nan absorbs, opposite infinities give nan.
FAdd(x, y) ==
  IF x.kind = "nan" \/ y.kind = "nan" THEN NaN
  ELSE IF x.kind = "inf" /\ y.kind = "inf" THEN (IF x.m = y.m THEN x ELSE NaN)
  ELSE IF x.kind = "inf" THEN x
  ELSE IF y.kind = "inf" THEN y
  ELSE LET e == IF x.e < y.e THEN x.e ELSE y.e
       IN  Norm(x.m * Pow10(x.e - e) + y.m * Pow10(y.e - e), e)

\* int(x) of a finite float: truncation toward zero.
Trunc(x) ==
  IF x.e >= 0 THEN x.m * Pow10(x.e)
  ELSE Sgn(x.m) * ((Sgn(x.m) * x.m) \div Pow10(-x.e))

PointCount(s) == Cardinality({i \in 1..Len(s) : s[i] = "."})
PointAt(s) == CHOOSE i \in 1..Len(s) : s[i] = "."

\* Decimal literal without a sign: digits with at most one point, one digit at least.
IsDecimalText(s) ==
  /\ s # <<>>
  /\ \A i \in 1..Len(s) : s[i] \in Digits \cup {"."}
  /\ PointCount(s) <= 1
  /\ \E i \in 1..Len(s) : s[i] \in Digits

DecimalVal(s) ==
  IF PointCount(s) = 0 THEN Num(DigitsVal(s), 0)
  ELSE LET p == PointAt(s)
           ds == SubSeq(s, 1, p - 1) \o SubSeq(s, p + 1, Len(s))
       IN  Num(DigitsVal(ds), -(Len(s) - p))

InfTexts == {<<"i", "n", "f">>, <<"i", "n", "f", "i", "n", "i", "t", "y">>}
NanTexts == {<<"n", "a", "n">>}

\* float(text) succeeds: blanks around, an optional sign, then a decimal
\* literal or one of the special tokens inf, infinity, nan (lower case here).
IsFloatText(s) ==
  LET u == Unsigned(Strip(s))
  IN  IsDecimalText(u) \/ u \in InfTexts \/ u \in NanTexts

FloatOf(s) ==
  LET t == Strip(s)
      u == Unsigned(t)
  IN  IF u \in NanTexts THEN NaN
      ELSE IF u \in InfTexts THEN (IF SignOf(t) < 0 THEN NegInf ELSE PosInf)
      ELSE LET v == DecimalVal(u) IN Norm(SignOf(t) * v.m, v.e)

(***************************************************************************)
(* The pure row functions of format.py.                                    *)
(***************************************************************************)

\* combine_atomic_mass: int(intPart) + float(fracPart)/1e6, None on ValueError.
combine_atomic_mass(row) ==
  LET intPart == Strip(PyStr(row.atomicMassInt))
      fracPart == Strip(PyStr(row.atomicMassFrac))
  IN  IF IsIntText(intPart) /\ IsFloatText(fracPart)
      THEN FAdd(Num(IntOf(intPart), 0), FMul(FloatOf(fracPart), Num(1, -6)))
      ELSE None

\* The column apply(f, axis=1) returns: a Series built from floats and None
\* holds nan in None's place, one built from None alone keeps None.
applyColumn(vals) ==
  IF \E i \in 1..Len(vals) : vals[i] # None
  THEN [i \in 1..Len(vals) |-> IF vals[i] = None THEN NaN ELSE vals[i]]
  ELSE vals

\* f"{row['el'].strip()}-{row['a']}"
speciesName(row) == Strip(row.el) \o <<"-">> \o IntToText(row.a)

\* An instance name made of the element symbol alone.
mkInstanceNameSymbolOnly(row) == Strip(row.el)

\* mkInstanceName: the species name with every "-" replaced by "_".
mkInstanceName(row) == Replace(speciesName(row), "-", <<"_">>)

\* The unit tokens of the factors table, and each one's seconds multiplier.
factorsKeys ==
  {<<"y", "s">>, <<"z", "s">>, <<"a", "s">>, <<"f", "s">>,
   <<"p", "s">>, <<"n", "s">>, <<"u", "s">>, <<"m", "s">>,
   <<"s">>, <<"m">>, <<"h">>, <<"d">>, <<"y">>,
   <<"k", "y">>, <<"M", "y">>, <<"G", "y">>,
   <<"T", "y">>, <<"P", "y">>, <<"E", "y">>}

factorsAt(unit) ==
  CASE unit = <<"y", "s">> -> Num(1, -24)
    [] unit = <<"z", "s">> -> Num(1, -21)
    [] unit = <<"a", "s">> -> Num(1, -18)
    [] unit = <<"f", "s">> -> Num(1, -15)
    [] unit = <<"p", "s">> -> Num(1, -12)
    [] unit = <<"n", "s">> -> Num(1, -9)
    [] unit = <<"u", "s">> -> Num(1, -6)
    [] unit = <<"m", "s">> -> Num(1, -3)
    [] unit = <<"s">> -> Num(1, 0)
    [] unit = <<"m">> -> Num(60, 0)
    [] unit = <<"h">> -> Num(3600, 0)
    [] unit = <<"d">> -> Num(86400, 0)
    [] unit = <<"y">> -> Num(315576, 2)
    [] unit = <<"k", "y">> -> Num(315576, 5)
    [] unit = <<"M", "y">> -> Num(315576, 8)
    [] unit = <<"G", "y">> -> Num(315576, 11)
    [] unit = <<"T", "y">> -> Num(315576, 14)
    [] unit = <<"P", "y">> -> Num(315576, 17)
    [] unit = <<"E", "y">> -> Num(315576, 20)

\* A factors table that ends at petayears.
factorsGetNoExa(unit) ==
  IF unit \in factorsKeys \ {<<"E", "y">>} THEN factorsAt(unit) ELSE Zero

\* factors.get(unit, 0.0)
factorsGet(unit) == IF unit \in factorsKeys THEN factorsAt(unit) ELSE Zero

stbl == <<"s", "t", "b", "l">>

\* convert_half_life_to_seconds
convert_half_life_to_seconds(row) ==
  LET value_str == Strip(PyStr(row.halfLife))
      unit == Strip(PyStr(row.halfLifeUnit))
      cleaned == Replace(value_str, "#", <<>>)
  IN  IF value_str = stbl THEN PosInf
      ELSE IF ~IsFloatText(cleaned) THEN Zero
      ELSE FMul(FloatOf(cleaned), factorsGet(unit))

(***************************************************************************)
(* pandas operations used by the scripts.  A table is a sequence of rows,  *)
(* a row a record; "index" is the row's label (its line in the file).      *)
(***************************************************************************)

\* A cell text that column type inference reads as a number.
IsNumericText(s) == IsIntText(s) \/ IsFloatText(s)

\* A column of a file that read_fwf infers as numeric: it has a row and
\* every cell is numeric.  The .str accessor raises AttributeError on it.
ColIsNumeric(file, col) ==
  /\ Len(file) > 0
  /\ \A i \in 1..Len(file) : IsNumericText(Strip(file[i][col]))

\* A decoder that reads the mass number from the proton-number slice.
read_fwf_ame_shifted(file) ==
  [i \in 1..Len(file) |->
     [index |-> i,
      n |-> IntOf(file[i].n), z |-> IntOf(file[i].z), a |-> IntOf(file[i].z),
      el |-> Strip(file[i].el), betaCode |-> Strip(file[i].betaCode),
      atomicMassInt |-> Strip(file[i].atomicMassInt),
      atomicMassFrac |-> Strip(file[i].atomicMassFrac)]]

\* read_fwf(ame_input, colspecs=ame_col_specs, keep_default_na=False): every
\* field is the slice of the line with the filler blanks stripped; the
\* columns n, z, a hold integers.
read_fwf_ame(file) ==
  [i \in 1..Len(file) |->
     [index |-> i,
      n |-> IntOf(file[i].n), z |-> IntOf(file[i].z), a |-> IntOf(file[i].a),
      el |-> Strip(file[i].el), betaCode |-> Strip(file[i].betaCode),
      atomicMassInt |-> Strip(file[i].atomicMassInt),
      atomicMassFrac |-> Strip(file[i].atomicMassFrac)]]

\* read_fwf(nubase_input, colspecs=nubase_col_specs, keep_default_na=False)
read_fwf_nubase(file) ==
  [i \in 1..Len(file) |->
     [index |-> i,
      a |-> Strip(file[i].a), ZZZi |-> Strip(file[i].ZZZi),
      A_El |-> Strip(file[i].A_El), halfLife |-> Strip(file[i].halfLife),
      halfLifeUnit |-> Strip(file[i].halfLifeUnit),
      spinParity |-> Strip(file[i].spinParity),
      decayModes |-> Strip(file[i].decayModes)]]

RECURSIVE SelectAt(_, _, _)
SelectAt(df, S, i) ==
  IF i > Len(df) THEN <<>>
  ELSE (IF i \in S THEN <<df[i]>> ELSE <<>>) \o SelectAt(df, S, i + 1)

\* The rows of a table at the positions S, in order.
SelectRows(df, S) == SelectAt(df, S, 1)

\* pd.to_numeric(text, errors='coerce'): the number, nan when it is none.
to_numeric(s) == IF IsFloatText(s) THEN FloatOf(s) ELSE NaN

\* dropna(subset=['a']) after to_numeric
dropna_a(df) ==
  SelectRows(df, {i \in 1..Len(df) : to_numeric(df[i].a).kind # "nan"})

\* astype(int) raises on a non-finite value.
astype_int_raises(df) == \E i \in 1..Len(df) : to_numeric(df[i].a).kind = "inf"

astype_int(df) ==
  [i \in 1..Len(df) |-> [df[i] EXCEPT !.a = Trunc(to_numeric(df[i].a))]]

\* str.extract(r'([a-zA-Z]+)')[0]: the first run of letters, missing if none.
RECURSIVE LetterRun(_)
LetterRun(s) ==
  IF s = <<>> \/ Head(s) \notin Letters THEN <<>>
  ELSE <<Head(s)>> \o LetterRun(Tail(s))

RECURSIVE str_extract_letters(_)
str_extract_letters(s) ==
  IF s = <<>> THEN NaNText
  ELSE IF Head(s) \in Letters THEN LetterRun(s)
  ELSE str_extract_letters(Tail(s))

\* .str.strip() keeps a missing value missing.
str_strip(v) == IF v = NaNText THEN NaNText ELSE Strip(v)

\* .str[3:4]
str_slice_3_4(s) == IF Len(s) >= 4 THEN <<s[4]>> ELSE <<>>

\* nubase_df['ZZZi'].str[3:4].isin([' ', '0'])
isGroundState(r) == str_slice_3_4(r.ZZZi) \in {<<" ">>, <<"0">>}

groundStateFilter(df) == SelectRows(df, {i \in 1..Len(df) : isGroundState(df[i])})

\* drop_duplicates(subset=['a', 'el'], keep='first')
RECURSIVE drop_duplicates(_)
drop_duplicates(df) ==
  IF df = <<>> THEN <<>>
  ELSE LET init == drop_duplicates(SubSeq(df, 1, Len(df) - 1))
           last == df[Len(df)]
       IN  IF \E j \in 1..Len(init) : init[j].a = last.a /\ init[j].el = last.el
           THEN init ELSE Append(init, last)

RECURSIVE Concat(_)
Concat(ss) == IF ss = <<>> THEN <<>> ELSE Head(ss) \o Concat(Tail(ss))

\* A left row joined with a right row's columns halfLife_s, spinParity, decayModes.
joinRow(l, r) ==
  [n |-> l.n, z |-> l.z, a |-> l.a, el |-> l.el, betaCode |-> l.betaCode,
   atomicMass |-> l.atomicMass,
   halfLife_s |-> r.halfLife_s, spinParity |-> r.spinParity,
   decayModes |-> r.decayModes]

\* The right columns of a left row without a match: missing values.
missingRight == [halfLife_s |-> NaN, spinParity |-> NaNText, decayModes |-> NaNText]

\* An inner join in the place of the left join: rows without a match are lost.
merge_inner(left, right) ==
  LET Rows(l) ==
        LET ms == SelectRows(right, {k \in 1..Len(right) :
                                       right[k].a = l.a /\ right[k].el = l.el})
        IN  [k \in 1..Len(ms) |-> joinRow(l, ms[k])]
  IN  Concat([i \in 1..Len(left) |-> Rows(left[i])])

\* pd.merge(left, right, on=['a', 'el'], how='left'): per left row, in order,
\* one row per matching right row, and one row of missing values if none.
merge_left(left, right) ==
  LET Rows(l) ==
        LET ms == SelectRows(right, {k \in 1..Len(right) :
                                       right[k].a = l.a /\ right[k].el = l.el})
        IN  IF ms = <<>> THEN <<joinRow(l, missingRight)>>
            ELSE [k \in 1..Len(ms) |-> joinRow(l, ms[k])]
  IN  Concat([i \in 1..Len(left) |-> Rows(left[i])])

(***************************************************************************)
(* The emitter of format.py.                                               *)
(***************************************************************************)

InfinityLiteral ==
  [kind |-> "std::numeric_limits<double>::infinity()", m |-> 0, e |-> 0]

\* The escape of double quotes: replace('"', '\\"')
escapeQuotes(s) == Replace(s, "\"", <<"\\", "\"">>)

\* float(row['atomicMass']) raises TypeError on None.
formatSpeciesRaises(row) == row.atomicMass = None

\* row.get('halfLife_s', 'std::numeric_limits<double>::infinity()')
getHalfLife(row) ==
  IF "halfLife_s" \in DOMAIN row THEN row.halfLife_s ELSE InfinityLiteral

getText(row, col) == IF col \in DOMAIN row THEN row[col] ELSE <<>>

\* formatSpecies: the declaration of one row.  The text fields hold what is
\* written between the quotes of the string literals; a float field is
\* written as Python prints it (nan for not-a-number).
formatSpecies(row) ==
  [instanceName |-> Replace(speciesName(row), "-", <<"_">>),
   name |-> speciesName(row),
   el |-> Strip(row.el),
   n |-> row.n, z |-> row.z, a |-> row.a,
   betaCode |-> PyStr(row.betaCode),
   halfLife_s |-> IF getHalfLife(row) = PosInf THEN InfinityLiteral
                  ELSE getHalfLife(row),
   spinParity |-> escapeQuotes(Strip(PyStr(getText(row, "spinParity")))),
   decayModes |-> escapeQuotes(Strip(PyStr(getText(row, "decayModes")))),
   atomicMass |-> row.atomicMass]

\* formatHeader: the declarations, then the lookup table's entries.
formatHeader(dataFrame) ==
  [decls |-> [i \in 1..Len(dataFrame) |-> formatSpecies(dataFrame[i])],
   entries |-> [i \in 1..Len(dataFrame) |->
                  [key |-> speciesName(dataFrame[i]),
                   instance |-> mkInstanceName(dataFrame[i])]]]

(***************************************************************************)
(* convertWeightsToHeader.py: the earlier, mass-table-only script.         *)
(***************************************************************************)

\* The cell texts read_fwf turns into a missing value by default.
DefaultNaTexts == {<<>>, <<"n", "a", "n">>, <<"N", "A">>, <<"N", "a", "N">>}

naCell(s) == IF Strip(s) \in DefaultNaTexts THEN NaNText ELSE Strip(s)

\* read_fwf(input, colspecs=colSpecs) with the default missing-value texts.
cw_read_fwf(file) ==
  [i \in 1..Len(file) |->
     [index |-> i,
      n |-> IntOf(file[i].n), z |-> IntOf(file[i].z), a |-> IntOf(file[i].a),
      el |-> naCell(file[i].el), betaCode |-> naCell(file[i].betaCode),
      atomicMassInt |-> naCell(file[i].atomicMassInt),
      atomicMassFrac |-> naCell(file[i].atomicMassFrac)]]

\* The atomicMassInt column is read as floats when every cell is a number or
\* missing and not every cell is an integer: str() of its cells is then
\* "1.0" or "nan", which int() rejects.
cw_intColumnIsFloat(df) ==
  /\ \E j \in 1..Len(df) : ~IsIntText(df[j].atomicMassInt)
  /\ \A j \in 1..Len(df) :
       df[j].atomicMassInt = NaNText \/ IsNumericText(df[j].atomicMassInt)

\* combine_atomic_mass of convertWeightsToHeader.py on row i of the table.
cw_combine_atomic_mass(df, i) ==
  LET intPart == Strip(PyStr(df[i].atomicMassInt))
      fracPart == Strip(PyStr(df[i].atomicMassFrac))
  IN  IF ~cw_intColumnIsFloat(df) /\ IsIntText(intPart) /\ IsFloatText(fracPart)
      THEN FAdd(Num(IntOf(intPart), 0), FMul(FloatOf(fracPart), Num(1, -6)))
      ELSE None

\* formatSpecies of convertWeightsToHeader.py raises AttributeError on a
\* missing element symbol (a float has no strip) and TypeError on a None mass.
cw_formatSpeciesRaises(row) == row.el = NaNText \/ row.atomicMass = None

cw_formatSpecies(row) ==
  [instanceName |-> Replace(speciesName(row), "-", <<"_">>),
   name |-> speciesName(row),
   el |-> row.el,
   n |-> row.n, z |-> row.z, a |-> row.a,
   betaCode |-> PyStr(row.betaCode),
   atomicMass |-> row.atomicMass]

\* formatSpeciesDefines: the guard macro's name (before upper-casing).
cw_formatSpeciesDefines(row) ==
  <<"S", "E", "R", "I", "F", "_", "S", "P", "E", "C", "I", "E", "S", "_">>
    \o cw_formatSpecies(row).instanceName

cw_formatHeader(df) ==
  [decls |-> [i \in 1..Len(df) |-> cw_formatSpecies(df[i])],
   entries |-> [i \in 1..Len(df) |->
                  [key |-> speciesName(df[i]), instance |-> mkInstanceName(df[i])]],
   defines |-> [i \in 1..Len(df) |-> cw_formatSpeciesDefines(df[i])]]

(***************************************************************************)
(* State.                                                                  *)
(***************************************************************************)
VARIABLES
  script,      \* which script runs: "format" or "convertWeightsToHeader"
  pc,          \* the statement of __main__ about to run
  error,       \* the exception that ended the run, "none" if none
  errPath,     \* the path the FileNotFoundError names
  ameExists,   \* os.path.exists(args.ame_input) (args.input)
  nubExists,   \* os.path.exists(args.nubase_input)
  ameFile,     \* the data lines of the mass table, as field slices
  nubFile,     \* the data lines of the nuclear table, as field slices
  opened,      \* the paths opened so far
  ame_df,
  nubase_df,
  merged_df,
  dataFrame,   \* the table of convertWeightsToHeader.py
  header,
  outFile      \* the content of the output path

vars ==
  <<script, pc, error, errPath, ameExists, nubExists, ameFile, nubFile, opened,
    ame_df, nubase_df, merged_df, dataFrame, header, outFile>>

inputs == <<script, ameExists, nubExists, ameFile, nubFile>>

\* What the output path holds before the run.
OldContent == [decls |-> <<>>, entries |-> <<>>, previous |-> TRUE]

NoHeader == [decls |-> <<>>, entries |-> <<>>]

Raise(e, path) ==
  /\ pc' = "failed"
  /\ error' = e
  /\ errPath' = path

Goto(l) ==
  /\ pc' = l
  /\ UNCHANGED <<error, errPath>>

(***************************************************************************)
(* __main__ of format.py, statement by statement.                          *)
(***************************************************************************)

\* A check of the first path alone.
CheckPathsFirstOnly ==
  /\ script = "format" /\ pc = "start"
  /\ IF ~ameExists THEN Raise("FileNotFoundError", "ame_input")
     ELSE Goto("read_ame")
  /\ UNCHANGED <<inputs, opened, ame_df, nubase_df, merged_df, dataFrame, header, outFile>>

\* for path in [ame_input, nubase_input]: raise FileNotFoundError if missing
CheckPaths ==
  /\ script = "format" /\ pc = "start"
  /\ IF ~ameExists THEN Raise("FileNotFoundError", "ame_input")
     ELSE IF ~nubExists THEN Raise("FileNotFoundError", "nubase_input")
     ELSE Goto("read_ame")
  /\ UNCHANGED <<inputs, opened, ame_df, nubase_df, merged_df, dataFrame, header, outFile>>

\* ame_df = pd.read_fwf(args.ame_input, ...)
ReadAme ==
  /\ script = "format" /\ pc = "read_ame"
  /\ IF ameExists
     THEN /\ opened' = opened \cup {"ame_input"}
          /\ ame_df' = read_fwf_ame(ameFile)
          /\ Goto("normalize_ame")
     ELSE /\ Raise("FileNotFoundError", "ame_input")
          /\ UNCHANGED <<opened, ame_df>>
  /\ UNCHANGED <<inputs, nubase_df, merged_df, dataFrame, header, outFile>>

\* atomicMass = apply(combine_atomic_mass); drop the two parts; el.str.strip()
NormalizeAme ==
  /\ script = "format" /\ pc = "normalize_ame"
  /\ IF ColIsNumeric(ameFile, "el")
     THEN /\ Raise("AttributeError", "")
          /\ UNCHANGED ame_df
     ELSE /\ ame_df' =
               [i \in 1..Len(ame_df) |->
                  [index |-> ame_df[i].index,
                   n |-> ame_df[i].n, z |-> ame_df[i].z, a |-> ame_df[i].a,
                   el |-> str_strip(ame_df[i].el),
                   betaCode |-> ame_df[i].betaCode,
                   atomicMass |->
                     applyColumn([j \in 1..Len(ame_df) |->
                                    combine_atomic_mass(ame_df[j])])[i]]]
          /\ Goto("read_nubase")
  /\ UNCHANGED <<inputs, opened, nubase_df, merged_df, dataFrame, header, outFile>>

\* nubase_df = pd.read_fwf(args.nubase_input, ...)
ReadNubase ==
  /\ script = "format" /\ pc = "read_nubase"
  /\ IF nubExists
     THEN /\ opened' = opened \cup {"nubase_input"}
          /\ nubase_df' = read_fwf_nubase(nubFile)
          /\ Goto("to_numeric")
     ELSE /\ Raise("FileNotFoundError", "nubase_input")
          /\ UNCHANGED <<opened, nubase_df>>
  /\ UNCHANGED <<inputs, ame_df, merged_df, dataFrame, header, outFile>>

\* a = to_numeric(a, errors='coerce'); dropna(subset=['a']); a = a.astype(int)
NubaseToNumeric ==
  /\ script = "format" /\ pc = "to_numeric"
  /\ IF astype_int_raises(dropna_a(nubase_df))
     THEN /\ Raise("IntCastingNaNError", "")
          /\ UNCHANGED nubase_df
     ELSE /\ nubase_df' = astype_int(dropna_a(nubase_df))
          /\ Goto("extract_el")
  /\ UNCHANGED <<inputs, opened, ame_df, merged_df, dataFrame, header, outFile>>

\* el = A_El.str.extract(r'([a-zA-Z]+)')[0].str.strip()
NubaseExtractEl ==
  /\ script = "format" /\ pc = "extract_el"
  /\ IF ColIsNumeric(nubFile, "A_El")
     THEN /\ Raise("AttributeError", "")
          /\ UNCHANGED nubase_df
     ELSE /\ nubase_df' =
               [i \in 1..Len(nubase_df) |->
                  ("el" :> str_strip(str_extract_letters(nubase_df[i].A_El)))
                    @@ nubase_df[i]]
          /\ Goto("ground_filter")
  /\ UNCHANGED <<inputs, opened, ame_df, merged_df, dataFrame, header, outFile>>

\* nubase_df = nubase_df[nubase_df['ZZZi'].str[3:4].isin([' ', '0'])]
NubaseGroundFilter ==
  /\ script = "format" /\ pc = "ground_filter"
  /\ IF ColIsNumeric(nubFile, "ZZZi")
     THEN /\ Raise("AttributeError", "")
          /\ UNCHANGED nubase_df
     ELSE /\ nubase_df' = groundStateFilter(nubase_df)
          /\ Goto("drop_duplicates")
  /\ UNCHANGED <<inputs, opened, ame_df, merged_df, dataFrame, header, outFile>>

\* nubase_df.drop_duplicates(subset=['a', 'el'], keep='first', inplace=True)
NubaseDropDuplicates ==
  /\ script = "format" /\ pc = "drop_duplicates"
  /\ nubase_df' = drop_duplicates(nubase_df)
  /\ Goto("half_life")
  /\ UNCHANGED <<inputs, opened, ame_df, merged_df, dataFrame, header, outFile>>

\* nubase_df['halfLife_s'] = nubase_df.apply(convert_half_life_to_seconds, axis=1)
NubaseHalfLife ==
  /\ script = "format" /\ pc = "half_life"
  /\ nubase_df' =
       [i \in 1..Len(nubase_df) |->
          ("halfLife_s" :> convert_half_life_to_seconds(nubase_df[i]))
            @@ nubase_df[i]]
  /\ Goto("merge")
  /\ UNCHANGED <<inputs, opened, ame_df, merged_df, dataFrame, header, outFile>>

\* merged_df = pd.merge(ame_df, nubase_df[[...]], on=['a', 'el'], how='left')
Merge ==
  /\ script = "format" /\ pc = "merge"
  /\ merged_df' = merge_left(ame_df, nubase_df)
  /\ Goto("format_header")
  /\ UNCHANGED <<inputs, opened, ame_df, nubase_df, dataFrame, header, outFile>>

\* header = formatHeader(merged_df)
FormatHeader ==
  /\ script = "format" /\ pc = "format_header"
  /\ IF \E i \in 1..Len(merged_df) : formatSpeciesRaises(merged_df[i])
     THEN /\ Raise("TypeError", "")
          /\ UNCHANGED header
     ELSE /\ header' = formatHeader(merged_df)
          /\ Goto("write")
  /\ UNCHANGED <<inputs, opened, ame_df, nubase_df, merged_df, dataFrame, outFile>>

\* with open(args.output, "w") as f: f.write(header)
WriteOutput ==
  /\ script = "format" /\ pc = "write"
  /\ opened' = opened \cup {"output"}
  /\ outFile' = header
  /\ Goto("done")
  /\ UNCHANGED <<inputs, ame_df, nubase_df, merged_df, dataFrame, header>>

(***************************************************************************)
(* __main__ of convertWeightsToHeader.py.                                  *)
(***************************************************************************)

\* if not os.path.exists(args.input): raise FileNotFoundError
CW_CheckPath ==
  /\ script = "convertWeightsToHeader" /\ pc = "start"
  /\ IF ~ameExists THEN Raise("FileNotFoundError", "input") ELSE Goto("read")
  /\ UNCHANGED <<inputs, opened, ame_df, nubase_df, merged_df, dataFrame, header, outFile>>

\* dataFrame = pd.read_fwf(args.input, ...)
CW_Read ==
  /\ script = "convertWeightsToHeader" /\ pc = "read"
  /\ IF ameExists
     THEN /\ opened' = opened \cup {"input"}
          /\ dataFrame' = cw_read_fwf(ameFile)
          /\ Goto("combine")
     ELSE /\ Raise("FileNotFoundError", "input")
          /\ UNCHANGED <<opened, dataFrame>>
  /\ UNCHANGED <<inputs, ame_df, nubase_df, merged_df, header, outFile>>

\* atomicMass = apply(combine_atomic_mass); drop the two parts
CW_CombineMass ==
  /\ script = "convertWeightsToHeader" /\ pc = "combine"
  /\ dataFrame' =
       [i \in 1..Len(dataFrame) |->
          [index |-> dataFrame[i].index,
           n |-> dataFrame[i].n, z |-> dataFrame[i].z, a |-> dataFrame[i].a,
           el |-> dataFrame[i].el, betaCode |-> dataFrame[i].betaCode,
           atomicMass |->
             applyColumn([j \in 1..Len(dataFrame) |->
                            cw_combine_atomic_mass(dataFrame, j)])[i]]]
  /\ Goto("format_header")
  /\ UNCHANGED <<inputs, opened, ame_df, nubase_df, merged_df, header, outFile>>

\* header = formatHeader(dataFrame)
CW_FormatHeader ==
  /\ script = "convertWeightsToHeader" /\ pc = "format_header"
  /\ IF \E i \in 1..Len(dataFrame) : cw_formatSpeciesRaises(dataFrame[i])
     THEN /\ Raise(IF \E i \in 1..Len(dataFrame) : dataFrame[i].el = NaNText
                   THEN "AttributeError" ELSE "TypeError", "")
          /\ UNCHANGED header
     ELSE /\ header' = cw_formatHeader(dataFrame)
          /\ Goto("write")
  /\ UNCHANGED <<inputs, opened, ame_df, nubase_df, merged_df, dataFrame, outFile>>

\* with open(args.output, "w") as f: f.write(header)
CW_Write ==
  /\ script = "convertWeightsToHeader" /\ pc = "write"
  /\ opened' = opened \cup {"output"}
  /\ outFile' = header
  /\ Goto("done")
  /\ UNCHANGED <<inputs, ame_df, nubase_df, merged_df, dataFrame, header>>

Next ==
  \/ CheckPaths
  \/ ReadAme
  \/ NormalizeAme
  \/ ReadNubase
  \/ NubaseToNumeric
  \/ NubaseExtractEl
  \/ NubaseGroundFilter
  \/ NubaseDropDuplicates
  \/ NubaseHalfLife
  \/ Merge
  \/ FormatHeader
  \/ WriteOutput
  \/ CW_CheckPath
  \/ CW_Read
  \/ CW_CombineMass
  \/ CW_FormatHeader
  \/ CW_Write

(***************************************************************************)
(* Inputs.  A line of a file is the record of its field slices, blanks     *)
(* included.  The columns the emitter converts with int() and float()      *)
(* without a fallback (nz, bindingEnergy, atomicMassUnc, betaDecayEnergy)  *)
(* are left out; n, z and a of the mass table hold digits only.            *)
(***************************************************************************)
AmeLine(n, z, a, el, betaCode, atomicMassInt, atomicMassFrac) ==
  [n |-> n, z |-> z, a |-> a, el |-> el, betaCode |-> betaCode,
   atomicMassInt |-> atomicMassInt, atomicMassFrac |-> atomicMassFrac]

NubLine(a, ZZZi, A_El, halfLife, halfLifeUnit, spinParity, decayModes) ==
  [a |-> a, ZZZi |-> ZZZi, A_El |-> A_El, halfLife |-> halfLife,
   halfLifeUnit |-> halfLifeUnit, spinParity |-> spinParity,
   decayModes |-> decayModes]

\* H-1, mass 1 + 7825/1e6.
AmeH1 ==
  AmeLine(<<" ", "0">>, <<" ", "1">>, <<" ", "1">>, <<"H", " ", " ">>,
          <<"B", "-">>, <<" ", "1">>, <<"7", "8", "2", "5">>)

\* He-4 with an estimated mass: the fraction carries the "#" flag.
AmeHe4 ==
  AmeLine(<<"2">>, <<"2">>, <<"4">>, <<"H", "e", " ">>,
          <<"B", "-">>, <<"4">>, <<"2", "6", "0", "3", "#">>)

\* A line whose mass number is not neutrons plus protons, again He-4.
AmeOdd ==
  AmeLine(<<"1">>, <<"1">>, <<"4">>, <<"H", "e", " ">>,
          <<"B", "+">>, <<"4">>, <<"2", "6", "0", "3">>)

AmeLines == {AmeH1, AmeHe4, AmeOdd}

\* A comment line left after the one skipped header line.
NubHeader ==
  NubLine(<<"#", "-", "-">>, <<"-", "-", "-", "-">>, <<"-", "-", "-">>,
          <<>>, <<>>, <<>>, <<>>)

\* H-1 ground state, stable.
NubH1 ==
  NubLine(<<"0", "0", "1">>, <<"0", "0", "1", "0">>, <<"1", "H", " ">>,
          <<"s", "t", "b", "l">>, <<" ", " ">>, <<"1", "/", "2", "+">>,
          <<"I", "S">>)

\* H-1, an isomer line.
NubH1m ==
  NubLine(<<"0", "0", "1">>, <<"0", "0", "1", "1">>, <<"1", "H", " ">>,
          <<"5">>, <<"s", " ">>, <<"1", "-">>, <<"I", "T">>)

\* H-1 ground state whose isomer indicator is a blank.
NubH1sp ==
  NubLine(<<"0", "0", "1">>, <<"0", "0", "1", " ">>, <<"1", "H", " ">>,
          <<"1", "2", ".", "3">>, <<"h", " ">>, <<"0", "+">>, <<"B", "-">>)

\* He-4 ground state, stable.
NubHe4 ==
  NubLine(<<"0", "0", "4">>, <<"0", "0", "2", "0">>, <<"4", "H", "e">>,
          <<"s", "t", "b", "l">>, <<" ", " ">>, <<"0", "+">>, <<"I", "S">>)

NubLines == {NubHeader, NubH1, NubH1m, NubH1sp, NubHe4}

SeqsUpTo(S, n) == UNION {[1..k -> S] : k \in 0..n}

\* The state before __main__ runs, for files drawn from the given sets.
InitWith(ameFiles, nubFiles) ==
  /\ script \in {"format", "convertWeightsToHeader"}
  /\ ameExists \in BOOLEAN
  /\ nubExists \in (IF script = "format" THEN BOOLEAN ELSE {FALSE})
  /\ ameFile \in (IF ameExists THEN ameFiles ELSE {<<>>})
  /\ nubFile \in (IF nubExists THEN nubFiles ELSE {<<>>})
  /\ pc = "start"
  /\ error = "none"
  /\ errPath = ""
  /\ opened = {}
  /\ ame_df = <<>>
  /\ nubase_df = <<>>
  /\ merged_df = <<>>
  /\ dataFrame = <<>>
  /\ header = NoHeader
  /\ outFile = OldContent

Init == InitWith(SeqsUpTo(AmeLines, MaxAmeRows), SeqsUpTo(NubLines, MaxNubRows))

Spec == Init /\ [][Next]_vars

(***************************************************************************)
(* Stages of a run of format.py.                                           *)
(***************************************************************************)
\* The merge has run: merged_df holds its result.
MergeDone ==
  /\ script = "format"
  /\ \/ pc \in {"format_header", "write", "done"}
     \/ pc = "failed" /\ error = "TypeError"

\* The mass table has been decoded: ame_df holds its rows.
AmeDecoded == script = "format" /\ "ame_input" \in opened

\* formatHeader has returned: header holds the emitted text.
HeaderDone == script = "format" /\ pc \in {"write", "done"}

\* The nuclear table is normalized: filter, deduplication and half-life done.
NubaseNormalized ==
  /\ script = "format"
  /\ \/ pc \in {"merge", "format_header", "write", "done"}
     \/ pc = "failed" /\ error = "TypeError"

\* The mass-table columns of a merged row, and of a mass-table row.
massColumns(r) ==
  [n |-> r.n, z |-> r.z, a |-> r.a, el |-> r.el, betaCode |-> r.betaCode,
   atomicMass |-> r.atomicMass]

\* The nuclear columns of a merged row.
nuclearColumns(r) ==
  [halfLife_s |-> r.halfLife_s, spinParity |-> r.spinParity,
   decayModes |-> r.decayModes]

\* The positions of the nuclear records with the key of mass-table row l.
matchesOf(l) ==
  {k \in 1..Len(nubase_df) : nubase_df[k].a = l.a /\ nubase_df[k].el = l.el}

(***************************************************************************)
(* C1.  Merge totality: the merged table has as many rows as the mass      *)
(* table; row i of it carries the columns of mass-table row i, with the    *)
(* nuclear columns of the one nuclear record of the same (a, el) if there  *)
(* is one and missing values if there is none; so no row is lost or        *)
(* duplicated and none comes from a key the nuclear table alone holds.     *)
(***************************************************************************)
C1_MergeTotality ==
  MergeDone =>
    /\ Len(merged_df) = Len(ame_df)
    /\ \A i \in 1..Len(merged_df) :
         /\ i <= Len(ame_df)
         /\ massColumns(merged_df[i]) = massColumns(ame_df[i])
         /\ IF matchesOf(ame_df[i]) = {}
            THEN nuclearColumns(merged_df[i]) = missingRight
            ELSE \E k \in matchesOf(ame_df[i]) :
                   nuclearColumns(merged_df[i]) = nuclearColumns(nubase_df[k])

\* Two mass-table rows merged, one with a nuclear record and one without,
\* while the nuclear table is not empty.
C1_Witness ==
  /\ MergeDone
  /\ Len(ame_df) = 2
  /\ Len(merged_df) = 2
  /\ \E i \in 1..2 : matchesOf(ame_df[i]) # {}
  /\ \E i \in 1..2 : matchesOf(ame_df[i]) = {}

(***************************************************************************)
(* C5.  A missing input path ends the run with FileNotFoundError naming    *)
(* that path before any file is opened: no table is decoded, the output    *)
(* path is not opened and keeps its content.  (convertWeightsToHeader.py   *)
(* has the one input.)                                                     *)
(***************************************************************************)
InputMissing == ~ameExists \/ (script = "format" /\ ~nubExists)

C5_MissingInputAborts ==
  InputMissing =>
    /\ pc \in {"start", "failed"}
    /\ opened = {}
    /\ outFile = OldContent
    /\ ame_df = <<>> /\ nubase_df = <<>> /\ dataFrame = <<>>
    /\ pc = "failed" =>
         /\ error = "FileNotFoundError"
         /\ errPath = (IF script = "convertWeightsToHeader" THEN "input"
                       ELSE IF ~ameExists THEN "ame_input" ELSE "nubase_input")

\* The run of format.py has failed on the missing nuclear table, the mass
\* table being there.
C5_Witness ==
  /\ script = "format" /\ ameExists /\ ~nubExists /\ ameFile # <<>>
  /\ pc = "failed" /\ errPath = "nubase_input"

(***************************************************************************)
(* C2 (as claimed).  A merged row without a nuclear record is emitted with *)
(* the infinity literal as its half-life and empty texts as its            *)
(* spin-parity and decay modes.                                            *)
(***************************************************************************)
C2_MissingAsSentinels ==
  HeaderDone =>
    \A i \in 1..Len(merged_df) :
      matchesOf(merged_df[i]) = {} =>
        /\ header.decls[i].halfLife_s = InfinityLiteral
        /\ header.decls[i].spinParity = <<>>
        /\ header.decls[i].decayModes = <<>>

(***************************************************************************)
(* The lookup table of the emitted header: the declarations a key leads    *)
(* to.  The table keeps the first entry of a key; the entry names an       *)
(* identifier, which stands for every declaration of that identifier.      *)
(***************************************************************************)
firstEntryOf(key) ==
  CHOOSE e \in 1..Len(header.entries) :
    /\ header.entries[e].key = key
    /\ \A f \in 1..(e - 1) : header.entries[f].key # key

lookup(key) ==
  IF \A e \in 1..Len(header.entries) : header.entries[e].key # key THEN {}
  ELSE {d \in 1..Len(header.decls) :
          header.decls[d].instanceName = header.entries[firstEntryOf(key)].instance}

\* "{symbol}-{massNumber}" of a merged row, built from its two columns.
keyOf(r) == r.el \o <<"-">> \o IntToText(r.a)

hasSeparator(t) == \E i \in 1..Len(t) : t[i] \in {"-", "_"}

(***************************************************************************)
(* C4 (as claimed).  Every merged row's key leads, in the lookup table, to *)
(* the declaration of that row alone, and the declaration identifiers are  *)
(* pairwise distinct.                                                      *)
(***************************************************************************)
C4_KeyRoundTrip ==
  HeaderDone =>
    /\ \A i \in 1..Len(merged_df) : lookup(keyOf(merged_df[i])) = {i}
    /\ \A i, j \in 1..Len(header.decls) :
         i # j => header.decls[i].instanceName # header.decls[j].instanceName

(***************************************************************************)
(* C4 (amended).  Every merged row's key is in the lookup table, entry i   *)
(* holds row i's key and the identifier of row i's declaration (the key    *)
(* with "-" replaced by "_"); the key leads to that row's declaration      *)
(* alone when no other row has the same identifier; two rows of different  *)
(* (symbol, massNumber) whose symbols hold no "-" or "_" have different    *)
(* identifiers.  Rows of the mass table with the same key are emitted      *)
(* under the same identifier: the emitter neither removes nor rejects them.*)
(***************************************************************************)
C4_KeyRoundTripUnique ==
  HeaderDone =>
    /\ Len(header.decls) = Len(merged_df) /\ Len(header.entries) = Len(merged_df)
    /\ \A i \in 1..Len(merged_df) :
         /\ header.entries[i].key = keyOf(merged_df[i])
         /\ header.entries[i].instance = header.decls[i].instanceName
         /\ header.decls[i].instanceName = Replace(keyOf(merged_df[i]), "-", <<"_">>)
         /\ i \in lookup(keyOf(merged_df[i]))
         /\ (\A j \in 1..Len(merged_df) :
               j # i => header.decls[j].instanceName # header.decls[i].instanceName)
            => lookup(keyOf(merged_df[i])) = {i}
    /\ \A i, j \in 1..Len(merged_df) :
         /\ ~hasSeparator(merged_df[i].el) /\ ~hasSeparator(merged_df[j].el)
         /\ <<merged_df[i].el, merged_df[i].a>> # <<merged_df[j].el, merged_df[j].a>>
         => header.decls[i].instanceName # header.decls[j].instanceName

\* A header of two rows of different keys, each found under its own key.
C4_Witness ==
  /\ HeaderDone
  /\ Len(merged_df) = 2
  /\ keyOf(merged_df[1]) # keyOf(merged_df[2])
  /\ lookup(keyOf(merged_df[1])) = {1}
  /\ lookup(keyOf(merged_df[2])) = {2}

(***************************************************************************)
(* C8 (as claimed).  Every decoded mass-table row, merged row and          *)
(* declaration has massNumber = neutronNumber + protonNumber.              *)
(***************************************************************************)
C8_MassNumberIsSum ==
  /\ AmeDecoded =>
       \A i \in 1..Len(ame_df) : ame_df[i].a = ame_df[i].n + ame_df[i].z
  /\ MergeDone =>
       \A i \in 1..Len(merged_df) : merged_df[i].a = merged_df[i].n + merged_df[i].z
  /\ HeaderDone =>
       \A i \in 1..Len(header.decls) :
         header.decls[i].a = header.decls[i].n + header.decls[i].z

(***************************************************************************)
(* C8 (amended).  The numbers n, z, a of a mass-table line pass unchanged  *)
(* through decoding, merge and emission, so a row, merged row and          *)
(* declaration has a = n + z exactly when its line of the file has it;     *)
(* the scripts neither check nor repair a line that has not.               *)
(***************************************************************************)
lineIsSum(l) == IntOf(l.a) = IntOf(l.n) + IntOf(l.z)

numbersOfLine(l) == <<IntOf(l.n), IntOf(l.z), IntOf(l.a)>>

numbersOf(r) == <<r.n, r.z, r.a>>

C8_MassNumberPassedThrough ==
  /\ AmeDecoded =>
       /\ Len(ame_df) = Len(ameFile)
       /\ \A i \in 1..Len(ame_df) :
            /\ numbersOf(ame_df[i]) = numbersOfLine(ameFile[i])
            /\ (ame_df[i].a = ame_df[i].n + ame_df[i].z) <=> lineIsSum(ameFile[i])
  /\ MergeDone =>
       \A i \in 1..Len(merged_df) :
         /\ numbersOf(merged_df[i]) = numbersOfLine(ameFile[i])
         /\ (merged_df[i].a = merged_df[i].n + merged_df[i].z) <=> lineIsSum(ameFile[i])
  /\ HeaderDone =>
       \A i \in 1..Len(header.decls) :
         /\ numbersOf(header.decls[i]) = numbersOfLine(ameFile[i])
         /\ (header.decls[i].a = header.decls[i].n + header.decls[i].z)
              <=> lineIsSum(ameFile[i])

\* A header emitted from one line that has a = n + z and one that has not.
C8_Witness ==
  /\ HeaderDone
  /\ Len(header.decls) = 2
  /\ \E i \in 1..2 : lineIsSum(ameFile[i])
  /\ \E i \in 1..2 : ~lineIsSum(ameFile[i])

(***************************************************************************)
(* C6 (as claimed).  A decoded nuclear-table row (one whose mass number    *)
(* parses) is kept by the ground-state filter exactly when the 4th         *)
(* character of its 4-character isomer code field is a blank or "0".       *)
(***************************************************************************)
massNumberParses(l) == to_numeric(Strip(l.a)).kind = "num"

indicatorIsGround(l) == Len(l.ZZZi) = 4 /\ l.ZZZi[4] \in {" ", "0"}

C6_GroundStateFilter ==
  script = "format" /\ pc = "drop_duplicates" =>
    \A i \in 1..Len(nubFile) :
      massNumberParses(nubFile[i]) =>
        ((\E k \in 1..Len(nubase_df) : nubase_df[k].index = i)
           <=> indicatorIsGround(nubFile[i]))

(***************************************************************************)
(* C7 (as claimed).  The normalized nuclear table has at most one record   *)
(* per (massNumber, symbol), and for every identity with a ground-state    *)
(* line whose mass number parses, the record is the first such line of the *)
(* file, isomer lines before it notwithstanding.                           *)
(***************************************************************************)
identityOfLine(l) ==
  <<Trunc(to_numeric(Strip(l.a))), str_extract_letters(Strip(l.A_El))>>

isGroundLine(l) == massNumberParses(l) /\ indicatorIsGround(l)

C7_FirstGroundStateSurvives ==
  NubaseNormalized =>
    /\ \A j, k \in 1..Len(nubase_df) :
         j # k => <<nubase_df[j].a, nubase_df[j].el>> # <<nubase_df[k].a, nubase_df[k].el>>
    /\ \A i \in 1..Len(nubFile) :
         /\ isGroundLine(nubFile[i])
         /\ \A h \in 1..(i - 1) :
              isGroundLine(nubFile[h]) => identityOfLine(nubFile[h]) # identityOfLine(nubFile[i])
         => \E k \in 1..Len(nubase_df) :
              /\ nubase_df[k].index = i
              /\ <<nubase_df[k].a, nubase_df[k].el>> = identityOfLine(nubFile[i])

(***************************************************************************)
(* C9 (as claimed).  A bad mass field neither drops a row nor ends the     *)
(* run: combine_atomic_mass gives int + float/1e6 when both parts parse    *)
(* and an absent value otherwise, the normalized mass table has one record *)
(* per decoded line, and a row of absent mass is merged and emitted.       *)
(***************************************************************************)
massPartsParse(l) == IsIntText(Strip(l.atomicMassInt)) /\ IsFloatText(Strip(l.atomicMassFrac))

massIsAbsent(m) == m = None \/ m = NaN

C9_BadMassRetained ==
  /\ script = "format" => error # "TypeError"
  /\ AmeDecoded /\ pc # "normalize_ame" =>
       /\ Len(ame_df) = Len(ameFile)
       /\ \A i \in 1..Len(ame_df) :
            massIsAbsent(ame_df[i].atomicMass) <=> ~massPartsParse(ameFile[i])
  /\ MergeDone => Len(merged_df) = Len(ameFile)
  /\ HeaderDone => Len(header.decls) = Len(ameFile)

(***************************************************************************)
(* Inputs for the half-life conversion: one nuclear line per pair of a     *)
(* half-life slice and a unit slice, after a comment line.                 *)
(***************************************************************************)
HalfLifeValues ==
  {<<"s", "t", "b", "l">>, <<" ", "s", "t", "b", "l", " ">>,
   <<"1", "2", ".", "3">>, <<" ", "5">>, <<"1", ".", "5", "#">>,
   <<"x", "y", "z">>, <<">", "1">>, <<>>, <<"#">>, <<"0">>, <<"-", "2">>,
   <<"i", "n", "f">>, <<"n", "a", "n">>}

HalfLifeUnits ==
  factorsKeys \cup
    {<<"s", " ">>, <<" ", "h">>, <<"q", "q">>, <<>>, <<" ", " ">>,
     <<"Z", "y">>, <<"S">>, <<"Y">>}

HalfLifeLine(v, u) ==
  NubLine(<<"0", "0", "1">>, <<"0", "0", "1", "0">>, <<"1", "H", " ">>,
          v, u, <<"1", "/", "2", "+">>, <<"I", "S">>)

InitHalfLife ==
  InitWith({<<AmeH1>>},
           {<<NubHeader, HalfLifeLine(v, u)>> : v \in HalfLifeValues, u \in HalfLifeUnits})

SpecHalfLife == InitHalfLife /\ [][Next]_vars

\* convert_half_life_to_seconds has run on the rows of the nuclear table.
HalfLifeDone == NubaseNormalized

\* The line of the file a row of the nuclear table was decoded from.
lineOf(r) == nubFile[r.index]

\* The seconds in a unit, from the SI prefixes and the Julian year of
\* 365.25 days of 24 hours of 3600 seconds (36525 * 24 * 36).
prefixExponent(c) ==
  CASE c = "y" -> -24 [] c = "z" -> -21 [] c = "a" -> -18 [] c = "f" -> -15
    [] c = "p" -> -12 [] c = "n" -> -9 [] c = "u" -> -6 [] c = "m" -> -3
    [] c = "k" -> 3 [] c = "M" -> 6 [] c = "G" -> 9 [] c = "T" -> 12
    [] c = "P" -> 15 [] c = "E" -> 18

secondsPerYear == Num(36525 * 24 * 36, 0)

submultiplesOfSecond == {"y", "z", "a", "f", "p", "n", "u", "m"}

multiplesOfYearToPeta == {"k", "M", "G", "T", "P"}

secondsPer(u) ==
  IF u = <<"s">> THEN Num(1, 0)
  ELSE IF u = <<"m">> THEN Num(60, 0)
  ELSE IF u = <<"h">> THEN Num(60 * 60, 0)
  ELSE IF u = <<"d">> THEN Num(24 * 60 * 60, 0)
  ELSE IF u = <<"y">> THEN secondsPerYear
  ELSE IF u[2] = "s" THEN Num(1, prefixExponent(u[1]))
  ELSE FMul(secondsPerYear, Num(1, prefixExponent(u[1])))

\* ys through Py, with m, h, d, y.
unitsThroughPeta ==
  {<<c, "s">> : c \in submultiplesOfSecond} \cup
  {<<"s">>, <<"m">>, <<"h">>, <<"d">>, <<"y">>} \cup
  {<<c, "y">> : c \in multiplesOfYearToPeta}

\* ys through Ey.
unitsThroughExa == unitsThroughPeta \cup {<<"E", "y">>}

\* The value token without its "#" flags, as float() reads it.
valueParses(v) == IsFloatText(Replace(v, "#", <<>>))
valueOf(v) == FloatOf(Replace(v, "#", <<>>))

TextAmeLines ==
  {AmeLine(<<"0">>, <<"1">>, <<"1">>, el, bc, <<"1">>, <<"7", "8", "2", "5">>) :
     el \in {<<"H">>, <<"H", "\"">>},
     bc \in {<<"B", "-">>, <<"B", "\"">>}}

TextNubLines ==
  {NubLine(<<"0", "0", "1">>, <<"0", "0", "1", "0">>, <<"1", "H", " ">>,
           <<"s", "t", "b", "l">>, <<>>, sp, dm) :
     sp \in {<<"1", "/", "2", "+">>, <<"1", "\"">>, <<"\\", "\"">>, <<"1", "\\">>},
     dm \in {<<"I", "S">>, <<"a", "\"", "b">>}}

InitText ==
  InitWith({<<l>> : l \in TextAmeLines}, {<<NubHeader, l>> : l \in TextNubLines})

SpecText == InitText /\ [][Next]_vars

\* A text written between two quotes is one string literal: scanning it, a
\* backslash takes the next character with it, and no quote stands bare.
RECURSIVE literalIntact(_)
literalIntact(t) ==
  IF t = <<>> THEN TRUE
  ELSE IF Head(t) = "\"" THEN FALSE
  ELSE IF Head(t) = "\\" THEN Len(t) >= 2 /\ literalIntact(Tail(Tail(t)))
  ELSE literalIntact(Tail(t))

(***************************************************************************)
(* C10 (as claimed).  In every declaration, the name, element symbol,      *)
(* beta-decay code, spin-parity and decay modes are written with every     *)
(* double quote escaped, so each string literal ends at its closing quote; *)
(* so are the keys of the lookup table.                                    *)
(***************************************************************************)
C10_QuotesEscaped ==
  HeaderDone =>
    \A i \in 1..Len(header.decls) :
      /\ literalIntact(header.decls[i].name)
      /\ literalIntact(header.decls[i].el)
      /\ literalIntact(header.decls[i].betaCode)
      /\ literalIntact(header.decls[i].spinParity)
      /\ literalIntact(header.decls[i].decayModes)
      /\ literalIntact(header.entries[i].key)

====
